---- MODULE Spec2Model ----
(***************************************************************************)
(* Size-constrained image re-encoding: automacoes/imagens/shrink_to_size.py *)
(* (ajustar_img.py holds the same functions, line for line).               *)
(*                                                                         *)
(* An image is a record [w, h, mode, transp, px]: width, height, Pillow    *)
(* mode, whether "transparency" is a key of img.info, and the pixel value  *)
(* of a uniformly coloured image (c: grey level 0..255 of every colour     *)
(* channel, a: alpha 0..255, 255 when the mode has no alpha).  For mode    *)
(* "P" with a transparency entry, a = 0 says the pixels use the            *)
(* transparent palette index.                                              *)
(*                                                                         *)
(* Encoded bytes are a record [img, fmt, q, len]: what was encoded, by     *)
(* which codec, with which quality argument, and the byte length.  The     *)
(* codec itself (Pillow) is outside the repository: it is a deterministic  *)
(* size function chosen in Init from a family of curves.                   *)
(***************************************************************************)
EXTENDS Integers, Sequences, FiniteSets, TLC

VARIABLES
    input,          \* the arguments of compress_to_target
    enc,            \* the codec's size curve (fixed for a run)
    pc,             \* position in compress_to_target / binary_search_quality
    img,            \* local img
    fmt,            \* local fmt (upper-cased at line 132)
    target_bytes,   \* local target_bytes
    data_quality,   \* local data_quality
    q_used,         \* local q_used
    data_low,       \* local data_low
    current_bytes,  \* local current_bytes
    passes,         \* local passes
    cur_img,        \* local cur_img
    bsq,            \* the frame of the running binary_search_quality call
    probes,         \* history: every (img, quality) handed to bytes_of_save
    scales,         \* history: every (before, factor, after) of scale_by_factor
    written,        \* history: every output_path.write_bytes(...)
    result          \* the returned tuple, None before the return

vars == <<input, enc, pc, img, fmt, target_bytes, data_quality, q_used,
          data_low, current_bytes, passes, cur_img, bsq, probes, scales,
          written, result>>

----------------------------------------------------------------------------
(* Bounds of the model *)

\* max_passes is drawn from 0..MaxPasses
MaxPasses == 2
\* target_kb is drawn from 0..MaxTargetKb
MaxTargetKb == 2

(* Program constants *)

\* an iteration cap too small for a range of 100 qualities
max_iters_short == 8 - 2

\* binary_search_quality's max_iters default; compress_to_target never overrides it
max_iters == 8

\* Python's None
None == [none |-> TRUE]

\* the quality field of bytes saved without a quality argument
NoQuality == -1

----------------------------------------------------------------------------
(* Integer helpers *)

Max(a, b) == IF a >= b THEN a ELSE b

\* floor of the square root of n >= 0
Isqrt(n) == CHOOSE r \in 0..n : r * r <= n /\ (r + 1) * (r + 1) > n

----------------------------------------------------------------------------
(* Pillow primitives the program calls *)

\* str.upper() on the format names the model uses
Upper(s) ==
    CASE s = "jpeg" -> "JPEG"
      [] s = "jpg"  -> "JPG"
      [] s = "webp" -> "WEBP"
      [] s = "png"  -> "PNG"
      [] OTHER      -> s

\* img.getbands() has an "A": the mode carries an alpha channel
HasAlphaBand(mode) == mode \in {"RGBA", "LA"}

\* Image.convert(mode), for the two targets the program asks for.  To RGBA:
\* an alpha band is kept, a palette transparency entry becomes alpha (and the
\* info key is dropped), anything else becomes opaque.  To RGB: alpha is
\* dropped, the colour is kept.
Convert(im, mode) ==
    IF mode = "RGBA"
    THEN [im EXCEPT !.mode = "RGBA",
                    !.transp = FALSE,
                    !.px = [c |-> im.px.c,
                            a |-> IF HasAlphaBand(im.mode) \/ (im.mode = "P" /\ im.transp)
                                  THEN im.px.a ELSE 255]]
    ELSE [im EXCEPT !.mode = "RGB",
                    !.px = [c |-> im.px.c, a |-> 255]]

\* bg.paste(im, mask=alpha) on a white background: per channel
\* (c * a + 255 * (255 - a)) / 255, rounded
PasteOnWhite(im) ==
    [w |-> im.w, h |-> im.h, mode |-> "RGB", transp |-> FALSE,
     px |-> [c |-> (im.px.c * im.px.a + 255 * (255 - im.px.a) + 127) \div 255,
             a |-> 255]]

----------------------------------------------------------------------------
(* load_image and ensure_mode_for_format *)

load_image(file) ==
    IF file.mode = "P" THEN Convert(file, "RGBA") ELSE file

\* ensure_mode_for_format with "LA" left out of the flatten test of line 40
ensure_mode_no_LA(im, f) ==
    LET F == Upper(f) IN
    IF F \in {"JPEG", "JPG"}
    THEN IF im.mode \in {"RGBA"} \/ (im.mode = "P" /\ im.transp)
         THEN PasteOnWhite(IF im.mode # "RGBA" THEN Convert(im, "RGBA") ELSE im)
         ELSE IF im.mode \notin {"RGB"} THEN Convert(im, "RGB") ELSE im
    ELSE IF F = "WEBP"
    THEN im
    ELSE IF im.mode \notin {"RGB", "RGBA"}
         THEN Convert(im, IF HasAlphaBand(im.mode) THEN "RGBA" ELSE "RGB")
         ELSE im

\* ensure_mode_for_format with line 48 converting to "RGBA"
ensure_mode_jpeg_rgba(im, f) ==
    LET F == Upper(f) IN
    IF F \in {"JPEG", "JPG"}
    THEN IF im.mode \in {"RGBA", "LA"} \/ (im.mode = "P" /\ im.transp)
         THEN PasteOnWhite(IF im.mode # "RGBA" THEN Convert(im, "RGBA") ELSE im)
         ELSE IF im.mode \notin {"RGB"} THEN Convert(im, "RGBA") ELSE im
    ELSE IF F = "WEBP"
    THEN im
    ELSE IF im.mode \notin {"RGB", "RGBA"}
         THEN Convert(im, IF HasAlphaBand(im.mode) THEN "RGBA" ELSE "RGB")
         ELSE im

ensure_mode_for_format(im, f) ==
    LET F == Upper(f) IN
    IF F \in {"JPEG", "JPG"}
    THEN IF im.mode \in {"RGBA", "LA"} \/ (im.mode = "P" /\ im.transp)
         THEN PasteOnWhite(IF im.mode # "RGBA" THEN Convert(im, "RGBA") ELSE im)
         ELSE IF im.mode \notin {"RGB"} THEN Convert(im, "RGB") ELSE im
    ELSE IF F = "WEBP"
    THEN im
    ELSE IF im.mode \notin {"RGB", "RGBA"}
         THEN Convert(im, IF HasAlphaBand(im.mode) THEN "RGBA" ELSE "RGB")
         ELSE im

----------------------------------------------------------------------------
(* The codec and bytes_of_save *)

\* Per-pixel cost of the codec curve e at quality q: a slope, a jump above
\* e.knee, and the qualities e.dipqs where the curve dips to e.dipc (a curve
\* with dips is not monotone).  q = NoQuality is a save without a quality
\* argument: the codec's own default applies.
Cost(e, q) ==
    LET qq == IF q = NoQuality THEN e.dflt ELSE q IN
    IF qq \in e.dipqs
    THEN e.dipc
    ELSE e.slope * qq + (IF qq > e.knee THEN e.jump ELSE 0)

\* len of img.save(buf, format, quality): header plus per-pixel cost
EncSize(e, im, q) == e.hdr + im.w * im.h * Cost(e, q)

\* the codec's size never decreases when quality rises, over 0..100
Monotone(e) == \A q \in 0..99 : Cost(e, q) <= Cost(e, q + 1)

\* bytes_of_save: JPEG/JPG and WEBP pass quality on; any other format passes
\* it only if "quality" is a key of Image.SAVE, which maps format names to
\* save handlers and so never has that key
bytes_of_save(e, im, f, quality) ==
    LET fmt_u == Upper(f)
        q     == IF fmt_u \in {"JPEG", "JPG", "WEBP"} THEN quality ELSE NoQuality
    IN  [img |-> im,
         fmt |-> IF fmt_u \in {"JPEG", "JPG"} THEN "JPEG" ELSE fmt_u,
         q   |-> q,
         len |-> EncSize(e, im, q)]

----------------------------------------------------------------------------
(* Scale factors and scale_by_factor *)

\* A float factor is kept exactly: "ratio" is n/d, "root" is sqrt(n/d).

\* line 137 with the quotient upside down
WidthFactor_inverted(max_width, width) == [kind |-> "ratio", n |-> width, d |-> max_width]

\* line 137: max_width / float(img.width)
WidthFactor(max_width, width) == [kind |-> "ratio", n |-> max_width, d |-> width]

\* lines 158-159 without the max(factor, 0.5) of line 160
BackoffFactor_no_floor(t, c) ==
    IF c <= (9604 * t) \div 9025
    THEN [kind |-> "ratio", n |-> 19, d |-> 20]
    ELSE [kind |-> "root", n |-> 2401 * (t \div 4), d |-> 625 * c]

\* lines 158-160: sqrt(target_bytes / current_bytes) * 0.98, then min(.., 0.95),
\* then max(.., 0.5).  0.98^2 = 9604/10000 = 2401/2500, 0.95^2 = 9025/10000,
\* 0.5^2 = 2500/10000; target_bytes is a multiple of 1024, so 4 divides it.
\* 9604 t >= 9025 c and 9604 t <= 2500 c are written with c alone on one
\* side, which keeps the products small.
BackoffFactor(t, c) ==
    IF c <= (9604 * t) \div 9025
    THEN [kind |-> "ratio", n |-> 19, d |-> 20]
    ELSE IF c >= (9604 * t + 2499) \div 2500
    THEN [kind |-> "ratio", n |-> 1, d |-> 2]
    ELSE [kind |-> "root", n |-> 2401 * (t \div 4), d |-> 625 * c]

\* (x, n, d) for which the double x * (n / d) falls just below the integer
\* x * n / d, among x, d <= 24
FloatShort == {<<22, 15, 22>>, <<23, 13, 23>>}

\* int(x * factor)
IntTimes(x, f) ==
    IF f.kind = "ratio"
    THEN ((x * f.n) \div f.d) - (IF <<x, f.n, f.d>> \in FloatShort THEN 1 ELSE 0)
    ELSE Isqrt((x * x * f.n) \div f.d)

\* scale_by_factor without the max(1, ..) floor of lines 108-109
scale_no_floor(im, factor) ==
    LET new_w == IntTimes(im.w, factor)
        new_h == IntTimes(im.h, factor)
    IN  IF <<new_w, new_h>> = <<im.w, im.h>>
        THEN [im EXCEPT !.w = Max(1, im.w - 1), !.h = Max(1, im.h - 1)]
        ELSE [im EXCEPT !.w = new_w, !.h = new_h]

\* scale_by_factor without the max(1, ..) floor of lines 111-112
scale_forced_no_floor(im, factor) ==
    LET new_w == Max(1, IntTimes(im.w, factor))
        new_h == Max(1, IntTimes(im.h, factor))
    IN  IF <<new_w, new_h>> = <<im.w, im.h>>
        THEN [im EXCEPT !.w = im.w - 1, !.h = im.h - 1]
        ELSE [im EXCEPT !.w = new_w, !.h = new_h]

scale_by_factor(im, factor) ==
    LET new_w == Max(1, IntTimes(im.w, factor))
        new_h == Max(1, IntTimes(im.h, factor))
    IN  IF <<new_w, new_h>> = <<im.w, im.h>>
        THEN [im EXCEPT !.w = Max(1, im.w - 1), !.h = Max(1, im.h - 1)]
        ELSE [im EXCEPT !.w = new_w, !.h = new_h]

----------------------------------------------------------------------------
(* binary_search_quality *)

\* the frame at entry (lines 86-87); ret is where the caller continues
BsqFrame(im, f, t, q_min, q_max, ret) ==
    [img |-> im, fmt |-> f, target_bytes |-> t, q_min |-> q_min, q_max |-> q_max,
     lo |-> q_min, hi |-> q_max, best |-> None, it |-> 0, ret |-> ret]

\* lines 89-96 with line 94 lowering hi, as line 96 does
bsq_step_lowers_hi(e, b) ==
    LET mid  == (b.lo + b.hi) \div 2
        data == bytes_of_save(e, b.img, b.fmt, mid)
    IN  IF data.len <= b.target_bytes
        THEN [b EXCEPT !.best = [data |-> data, q |-> mid], !.hi = mid - 1, !.it = @ + 1]
        ELSE [b EXCEPT !.hi = mid - 1, !.it = @ + 1]

\* one iteration of the for loop, lines 89-96
bsq_step(e, b) ==
    LET mid  == (b.lo + b.hi) \div 2
        data == bytes_of_save(e, b.img, b.fmt, mid)
    IN  IF data.len <= b.target_bytes
        THEN [b EXCEPT !.best = [data |-> data, q |-> mid], !.lo = mid + 1, !.it = @ + 1]
        ELSE [b EXCEPT !.hi = mid - 1, !.it = @ + 1]

\* lines 97-103 returning the q_min probe without looking at its size
bsq_result_unchecked(e, b) ==
    IF b.best = None
    THEN [data |-> bytes_of_save(e, b.img, b.fmt, b.q_min), q |-> b.q_min]
    ELSE b.best

\* the value returned after the loop, lines 97-103
bsq_result(e, b) ==
    IF b.best = None
    THEN LET data == bytes_of_save(e, b.img, b.fmt, b.q_min)
         IN  IF data.len <= b.target_bytes
             THEN [data |-> data, q |-> b.q_min]
             ELSE [data |-> None, q |-> None]
    ELSE b.best

BsqIter ==
    /\ pc = "bsq_loop"
    /\ bsq.it < max_iters
    /\ bsq' = bsq_step(enc, bsq)
    /\ probes' = Append(probes, [img |-> bsq.img, q |-> (bsq.lo + bsq.hi) \div 2])
    /\ UNCHANGED <<input, enc, pc, img, fmt, target_bytes, data_quality, q_used,
                   data_low, current_bytes, passes, cur_img, scales, written, result>>

\* loop exhausted: lines 97-103, and the assignment of the returned pair at
\* the call site (line 143 or 163)
BsqReturn ==
    /\ pc = "bsq_loop"
    /\ bsq.it = max_iters
    /\ LET r == bsq_result(enc, bsq) IN
        /\ data_quality' = r.data
        /\ q_used' = r.q
    /\ probes' = IF bsq.best = None
                 THEN Append(probes, [img |-> bsq.img, q |-> bsq.q_min])
                 ELSE probes
    /\ pc' = bsq.ret
    /\ UNCHANGED <<input, enc, img, fmt, target_bytes, data_low, current_bytes,
                   passes, cur_img, bsq, scales, written, result>>

----------------------------------------------------------------------------
(* compress_to_target *)

\* the returned tuple (output_path, size_kb, final_size, quality_used)
Outcome(data, im, q) ==
    [size_kb |-> data.len \div 1024, size |-> <<im.w, im.h>>, quality |-> q]

\* line 131
Load ==
    /\ pc = "load"
    /\ img' = load_image(input.file)
    /\ pc' = "normalize"
    /\ UNCHANGED <<input, enc, fmt, target_bytes, data_quality, q_used, data_low,
                   current_bytes, passes, cur_img, bsq, probes, scales, written, result>>

\* lines 132-133
Normalize ==
    /\ pc = "normalize"
    /\ fmt' = Upper(input.fmt)
    /\ img' = ensure_mode_for_format(img, Upper(input.fmt))
    /\ pc' = "prescale"
    /\ UNCHANGED <<input, enc, target_bytes, data_quality, q_used, data_low,
                   current_bytes, passes, cur_img, bsq, probes, scales, written, result>>

\* lines 136-140, max_width given and smaller than the width
PreScale ==
    /\ pc = "prescale"
    /\ \E m \in input.max_width :
        /\ img.w > m
        /\ img' = scale_by_factor(img, WidthFactor(m, img.w))
        /\ scales' = Append(scales, [site |-> "max_width", before |-> img,
                                     factor |-> WidthFactor(m, img.w),
                                     after |-> scale_by_factor(img, WidthFactor(m, img.w))])
    /\ target_bytes' = input.target_kb * 1024
    /\ pc' = "search"
    /\ UNCHANGED <<input, enc, fmt, data_quality, q_used, data_low, current_bytes,
                   passes, cur_img, bsq, probes, written, result>>

\* lines 136-140, max_width None or not smaller than the width
NoPreScale ==
    /\ pc = "prescale"
    /\ \A m \in input.max_width : ~(img.w > m)
    /\ target_bytes' = input.target_kb * 1024
    /\ pc' = "search"
    /\ UNCHANGED <<input, enc, img, fmt, data_quality, q_used, data_low, current_bytes,
                   passes, cur_img, bsq, probes, scales, written, result>>

\* line 143: the call
FirstSearch ==
    /\ pc = "search"
    /\ bsq' = BsqFrame(img, fmt, target_bytes, input.quality_min, input.quality_max, "first")
    /\ pc' = "bsq_loop"
    /\ UNCHANGED <<input, enc, img, fmt, target_bytes, data_quality, q_used, data_low,
                   current_bytes, passes, cur_img, probes, scales, written, result>>

\* lines 144-146
ReturnFirst ==
    /\ pc = "first"
    /\ data_quality # None
    /\ written' = Append(written, data_quality)
    /\ result' = Outcome(data_quality, img, q_used)
    /\ pc' = "done"
    /\ UNCHANGED <<input, enc, img, fmt, target_bytes, data_quality, q_used, data_low,
                   current_bytes, passes, cur_img, bsq, probes, scales>>

\* lines 151-155 entered without the return of line 146 having cut the path
StartBackoff_unguarded ==
    /\ pc = "first"
    /\ data_low' = bytes_of_save(enc, img, fmt, input.quality_min)
    /\ current_bytes' = bytes_of_save(enc, img, fmt, input.quality_min).len
    /\ probes' = Append(probes, [img |-> img, q |-> input.quality_min])
    /\ passes' = 0
    /\ cur_img' = img
    /\ pc' = "while"
    /\ UNCHANGED <<input, enc, img, fmt, target_bytes, data_quality, q_used, bsq,
                   scales, written, result>>

\* lines 151-155
StartBackoff ==
    /\ pc = "first"
    /\ data_quality = None
    /\ data_low' = bytes_of_save(enc, img, fmt, input.quality_min)
    /\ current_bytes' = bytes_of_save(enc, img, fmt, input.quality_min).len
    /\ probes' = Append(probes, [img |-> img, q |-> input.quality_min])
    /\ passes' = 0
    /\ cur_img' = img
    /\ pc' = "while"
    /\ UNCHANGED <<input, enc, img, fmt, target_bytes, data_quality, q_used, bsq,
                   scales, written, result>>

\* the loop test of line 156 without the cap on passes
loop_test_no_cap(cb, tb, p, max_passes) == cb > tb

\* the loop test of line 156
loop_test(cb, tb, p, max_passes) == cb > tb /\ p < max_passes

\* lines 156-163: the loop test holds; downscale and call the search again
BackoffPass ==
    /\ pc = "while"
    /\ loop_test(current_bytes, target_bytes, passes, input.max_passes)
    /\ LET factor == BackoffFactor(target_bytes, current_bytes)
           scaled == scale_by_factor(cur_img, factor)
       IN  /\ cur_img' = scaled
           /\ scales' = Append(scales, [site |-> "backoff", before |-> cur_img,
                                        factor |-> factor, after |-> scaled])
           /\ bsq' = BsqFrame(scaled, fmt, target_bytes, input.quality_min,
                              input.quality_max, "pass")
    /\ pc' = "bsq_loop"
    /\ UNCHANGED <<input, enc, img, fmt, target_bytes, data_quality, q_used, data_low,
                   current_bytes, passes, probes, written, result>>

\* line 166 reporting the size of img, as line 146 does
pass_outcome_first_size(data, first_img, scaled_img, q) == Outcome(data, first_img, q)

\* line 166: the tuple returned from inside the loop
pass_outcome(data, first_img, scaled_img, q) == Outcome(data, scaled_img, q)

\* lines 164-166
ReturnPass ==
    /\ pc = "pass"
    /\ data_quality # None
    /\ written' = Append(written, data_quality)
    /\ result' = pass_outcome(data_quality, img, cur_img, q_used)
    /\ pc' = "done"
    /\ UNCHANGED <<input, enc, img, fmt, target_bytes, data_quality, q_used, data_low,
                   current_bytes, passes, cur_img, bsq, probes, scales>>

\* lines 168-170 with the re-measurement of data_low left out
pass_data_low_stale(e, im, f, q, old) == old

\* line 168 measuring at quality 1 rather than at quality_min
pass_data_low_at_1(e, im, f, q, old) == bytes_of_save(e, im, f, 1)

\* line 168: data_low of the pass
pass_data_low(e, im, f, q, old) == bytes_of_save(e, im, f, q)

\* lines 168-170
NextPass ==
    /\ pc = "pass"
    /\ data_quality = None
    /\ data_low' = pass_data_low(enc, cur_img, fmt, input.quality_min, data_low)
    /\ current_bytes' = pass_data_low(enc, cur_img, fmt, input.quality_min, data_low).len
    /\ probes' = Append(probes, [img |-> cur_img, q |-> input.quality_min])
    /\ passes' = passes + 1
    /\ pc' = "while"
    /\ UNCHANGED <<input, enc, img, fmt, target_bytes, data_quality, q_used, cur_img,
                   bsq, scales, written, result>>

\* lines 156, 174-175: the loop test fails; write the last quality_min encoding
LastResort ==
    /\ pc = "while"
    /\ ~loop_test(current_bytes, target_bytes, passes, input.max_passes)
    /\ written' = Append(written, data_low)
    /\ result' = Outcome(data_low, cur_img, input.quality_min)
    /\ pc' = "done"
    /\ UNCHANGED <<input, enc, img, fmt, target_bytes, data_quality, q_used, data_low,
                   current_bytes, passes, cur_img, bsq, probes, scales>>

----------------------------------------------------------------------------
(* Inputs *)

Image(w, h, mode, transp, c, a) ==
    [w |-> w, h |-> h, mode |-> mode, transp |-> transp, px |-> [c |-> c, a |-> a]]

Curve(hdr, slope, knee, jump, dipqs, dipc) ==
    [hdr |-> hdr, slope |-> slope, knee |-> knee, jump |-> jump,
     dipqs |-> dipqs, dipc |-> dipc, dflt |-> 75]

\* width and height of the source files
Dims == {<<1, 1>>, <<3, 2>>, <<16, 12>>, <<22, 16>>}

\* decoded source (mode, transparency key, colour, alpha) and requested format
Sources ==
    { <<"RGB",  FALSE, 100, 255, "JPEG">>,
      <<"RGBA", FALSE, 100, 0,   "jpg">>,
      <<"P",    TRUE,  100, 0,   "jpeg">>,
      <<"LA",   FALSE, 100, 128, "WEBP">>,
      <<"L",    FALSE, 100, 255, "PNG">> }

\* max_width: {} is None
MaxWidths == {{}, {2}, {15}}

\* (quality_min, quality_max) within 1..100: the defaults, the whole range,
\* a single quality, a narrow range, and one pair the wrong way round
QualityBounds == {<<5, 95>>, <<1, 100>>, <<5, 5>>, <<90, 95>>, <<60, 40>>}

\* codec curves: light, heavy, large header, flat, two with a knee, and one
\* that is not monotone
Curves ==
    { Curve(100, 1, 100, 0, {}, 0),
      Curve(100, 20, 100, 0, {}, 0),
      Curve(1500, 1, 100, 0, {}, 0),
      Curve(100, 0, 100, 0, {}, 0),
      Curve(100, 0, 60, 10, {}, 0),
      Curve(100, 0, 94, 10, {}, 0),
      Curve(100, 1, 100, 0, {50, 90}, 0) }

Inputs ==
    { [file |-> Image(d[1], d[2], s[1], s[2], s[3], s[4]), fmt |-> s[5],
       target_kb |-> kb, max_width |-> mw, quality_min |-> qb[1],
       quality_max |-> qb[2], max_passes |-> mp] :
        d \in Dims, s \in Sources, kb \in 0..MaxTargetKb, mw \in MaxWidths,
        qb \in QualityBounds, mp \in 0..MaxPasses }

----------------------------------------------------------------------------
(* The specification of compress_to_target *)

Init ==
    /\ input \in Inputs
    /\ enc \in Curves
    /\ pc = "load"
    /\ img = None
    /\ fmt = None
    /\ target_bytes = None
    /\ data_quality = None
    /\ q_used = None
    /\ data_low = None
    /\ current_bytes = None
    /\ passes = None
    /\ cur_img = None
    /\ bsq = None
    /\ probes = <<>>
    /\ scales = <<>>
    /\ written = <<>>
    /\ result = None

Next ==
    \/ Load
    \/ Normalize
    \/ PreScale
    \/ NoPreScale
    \/ FirstSearch
    \/ BsqIter
    \/ BsqReturn
    \/ ReturnFirst
    \/ StartBackoff
    \/ BackoffPass
    \/ ReturnPass
    \/ NextPass
    \/ LastResort

Spec == Init /\ [][Next]_vars

----------------------------------------------------------------------------
(* binary_search_quality on its own: every threshold of a monotone codec,   *)
(* and codecs that are not monotone, over narrow and wide quality bounds    *)

SearchBounds ==
    { <<lo, hi>> \in {1, 2, 5, 50, 100} \X {1, 5, 6, 64, 95, 99, 100} : lo <= hi }

\* on a 16 x 12 image with a 1024 byte budget, a knee curve fits exactly the
\* qualities up to its knee; the last two curves meet the budget with equality
SearchCurves ==
    { Curve(100, 0, k, 10, {}, 0) : k \in 0..100 }
    \cup { Curve(100, 0, k, 10, d, 0) : k \in {0, 49}, d \in {{4}, {50}, {72, 95}, {5, 6, 99}} }
    \cup { Curve(100, 0, 100, 0, d, 10) : d \in {{5}, {50}, {27, 72}, {1, 2, 100}} }
    \cup { Curve(1024, 0, 100, 0, {}, 0), Curve(64, 5, 100, 0, {}, 0) }

SearchFrames ==
    { BsqFrame(Image(16, 12, "RGB", FALSE, 100, 255), f, t, qb[1], qb[2], "returned") :
        f \in {"JPEG", "WEBP", "PNG"}, t \in {1024, 2048}, qb \in SearchBounds }

InitSearch ==
    /\ bsq \in SearchFrames
    /\ enc \in SearchCurves
    /\ pc = "bsq_loop"
    /\ input = None
    /\ img = None
    /\ fmt = None
    /\ target_bytes = None
    /\ data_quality = None
    /\ q_used = None
    /\ data_low = None
    /\ current_bytes = None
    /\ passes = None
    /\ cur_img = None
    /\ probes = <<>>
    /\ scales = <<>>
    /\ written = <<>>
    /\ result = None

NextSearch ==
    \/ BsqIter
    \/ BsqReturn

SpecSearch == InitSearch /\ [][NextSearch]_vars

----------------------------------------------------------------------------
(* load_image, ensure_mode_for_format and scale_by_factor on their own:     *)
(* every pixel format and target format, and any chain of downscales        *)

\* length of the longest chain of downscales
MaxScales == 2
\* ratio factors n/d are drawn with 1 <= n <= d <= MaxDen
MaxDen == 3

\* every pixel format on a 3 x 2 image, and every size as RGBA
OpFiles ==
    { Image(3, 2, "RGB", FALSE, c, 255) : c \in {0, 100} }
    \cup { Image(3, 2, m, FALSE, c, a) :
             m \in {"RGBA", "LA"}, c \in {0, 100}, a \in {0, 128, 255} }
    \cup { Image(3, 2, "P", TRUE, c, a) : c \in {0, 100}, a \in {0, 255} }
    \cup { Image(3, 2, m, FALSE, c, 255) : m \in {"P", "L", "CMYK"}, c \in {0, 100} }
    \cup { Image(d[1], d[2], "RGBA", FALSE, 100, 0) : d \in Dims }

OpFormats == {"JPEG", "jpeg", "JPG", "WEBP", "webp", "PNG"}

\* factors with 0 < factor <= 1: ratios, a max_width factor that the float
\* product rounds short, and backoff factors below, inside and above the clamp
OpFactors ==
    { [kind |-> "ratio", n |-> n, d |-> d] : <<n, d>> \in {<<n, d>> \in (1..MaxDen) \X (1..MaxDen) : n <= d} }
    \cup { WidthFactor(15, 22), WidthFactor(15, 16) }
    \cup { BackoffFactor(1024, c) : c \in {1025, 1300, 5000} }
    \cup { BackoffFactor(0, 100) }

InitOps ==
    /\ input \in { [file |-> im, fmt |-> f] : im \in OpFiles, f \in OpFormats }
    /\ pc = "op_start"
    /\ enc = None
    /\ img = None
    /\ fmt = None
    /\ target_bytes = None
    /\ data_quality = None
    /\ q_used = None
    /\ data_low = None
    /\ current_bytes = None
    /\ passes = None
    /\ cur_img = None
    /\ bsq = None
    /\ probes = <<>>
    /\ scales = <<>>
    /\ written = <<>>
    /\ result = None

\* the file as load_image returns it
OpLoad ==
    /\ pc = "op_start"
    /\ img' = load_image(input.file)
    /\ pc' = "op_loaded"
    /\ UNCHANGED <<input, enc, fmt, target_bytes, data_quality, q_used, data_low,
                   current_bytes, passes, cur_img, bsq, probes, scales, written, result>>

\* the decoded file as it is: ensure_mode_for_format called on any image
OpDecoded ==
    /\ pc = "op_start"
    /\ img' = input.file
    /\ pc' = "op_loaded"
    /\ UNCHANGED <<input, enc, fmt, target_bytes, data_quality, q_used, data_low,
                   current_bytes, passes, cur_img, bsq, probes, scales, written, result>>

\* cur_img = ensure_mode_for_format(img, fmt)
OpNormalize ==
    /\ pc = "op_loaded"
    /\ cur_img' = ensure_mode_for_format(img, input.fmt)
    /\ pc' = "op_normalized"
    /\ UNCHANGED <<input, enc, img, fmt, target_bytes, data_quality, q_used, data_low,
                   current_bytes, passes, bsq, probes, scales, written, result>>

\* cur_img = ensure_mode_for_format(cur_img, fmt): the normaliser applied to
\* its own output
OpNormalizeAgain ==
    /\ pc = "op_normalized"
    /\ cur_img' = ensure_mode_for_format(cur_img, input.fmt)
    /\ pc' = "op_renormalized"
    /\ UNCHANGED <<input, enc, img, fmt, target_bytes, data_quality, q_used, data_low,
                   current_bytes, passes, bsq, probes, scales, written, result>>

\* cur_img = scale_by_factor(cur_img, factor)
OpScale ==
    /\ pc \in {"op_normalized", "op_scaled"}
    /\ Len(scales) < MaxScales
    /\ \E f \in OpFactors :
        /\ cur_img' = scale_by_factor(cur_img, f)
        /\ scales' = Append(scales, [site |-> "op", before |-> cur_img, factor |-> f,
                                     after |-> scale_by_factor(cur_img, f)])
    /\ pc' = "op_scaled"
    /\ UNCHANGED <<input, enc, img, fmt, target_bytes, data_quality, q_used, data_low,
                   current_bytes, passes, bsq, probes, written, result>>

NextOps ==
    \/ OpLoad
    \/ OpDecoded
    \/ OpNormalize
    \/ OpNormalizeAgain
    \/ OpScale

SpecOps == InitOps /\ [][NextOps]_vars

----------------------------------------------------------------------------
(* Claims about binary_search_quality *)

\* binary_search_quality has just returned: data_quality, q_used hold the pair
Returned == pc \in {"first", "pass", "returned"}

\* the encoding of the searched image at quality q is within the budget
Fits(q) == bytes_of_save(enc, bsq.img, bsq.fmt, q).len <= bsq.target_bytes

\* C1: for valid bounds (quality_min <= quality_max), whenever
\* binary_search_quality returns a success value (bytes, quality),
\* quality_min <= quality <= quality_max.
C1_ReturnedQualityInBounds ==
    (Returned /\ bsq.q_min <= bsq.q_max /\ data_quality # None) =>
        (bsq.q_min <= q_used /\ q_used <= bsq.q_max)

\* C2: with a deterministic codec whose size never decreases with quality,
\* max_iters = 8 and 1 <= quality_min <= quality_max <= 100: if some quality
\* within the bounds fits the budget, the search returns the highest such
\* quality, with the bytes encoded at it.
C2_HighestFittingQuality ==
    (/\ Returned
     /\ Monotone(enc)
     /\ 1 <= bsq.q_min /\ bsq.q_min <= bsq.q_max /\ bsq.q_max <= 100
     /\ \E q \in bsq.q_min..bsq.q_max : Fits(q))
    => (/\ data_quality # None
        /\ q_used \in bsq.q_min..bsq.q_max
        /\ Fits(q_used)
        /\ \A q \in bsq.q_min..bsq.q_max : Fits(q) => q <= q_used
        /\ data_quality = bytes_of_save(enc, bsq.img, bsq.fmt, q_used))

\* a search over 1..100 that ended on a threshold strictly inside the bounds
C2_Witness ==
    /\ Returned
    /\ Monotone(enc)
    /\ bsq.q_min = 1 /\ bsq.q_max = 100
    /\ data_quality # None
    /\ q_used = 37
    /\ ~Fits(38)

\* C4: with a deterministic codec whose size never decreases with quality,
\* the search reports failure (None, None) exactly when the encoding at
\* quality_min exceeds the budget.
C4_FailureIffMinExceeds ==
    (Returned /\ Monotone(enc)) =>
        ((data_quality = None) <=> ~Fits(bsq.q_min))

----------------------------------------------------------------------------
(* Claims about compress_to_target *)

\* the images handed to the codec so far: the resolutions tried
TriedImgs == { probes[i].img : i \in 1..Len(probes) }

\* the downscales the backoff loop has made
BackoffScales == SelectSeq(scales, LAMBDA s : s.site = "backoff")

\* the image at the last resolution reached
LastImg == IF BackoffScales = <<>> THEN img ELSE BackoffScales[Len(BackoffScales)].after

\* C3: the output exceeds target_kb * 1024 bytes only if the encoding at
\* quality_min exceeded the budget at every resolution tried, the starting one
\* and all max_passes downscaled ones; when a Quality Search succeeded the
\* written bytes are within the budget.
C3_OvershootOnlyWhenMinExceeds ==
    pc = "done" =>
        /\ data_quality # None => written[1].len <= target_bytes
        /\ written[1].len > target_bytes =>
            /\ passes = input.max_passes
            /\ Len(BackoffScales) = input.max_passes
            /\ \A im \in TriedImgs :
                  bytes_of_save(enc, im, fmt, input.quality_min).len > target_bytes

\* an over-budget output after at least two downscale passes
C3_Witness ==
    /\ pc = "done"
    /\ written[1].len > target_bytes
    /\ passes >= 2
    /\ Cardinality(TriedImgs) >= 3

HeldImgs == {img} \cup { scales[i].after : i \in 1..Len(scales) }

\* C7: on every return path the output is written exactly once, and the
\* bytes written are the encoding, at the reported quality_used, of the image
\* whose (width, height) is reported.
C7_OutcomeConsistent ==
    /\ Len(written) <= 1
    /\ pc # "done" => written = <<>> /\ result = None
    /\ pc = "done" =>
        /\ Len(written) = 1
        /\ \E im \in HeldImgs :
            /\ result.size = <<im.w, im.h>>
            /\ written[1] = bytes_of_save(enc, im, fmt, result.quality)
            /\ written[1].img = im

\* a return from inside the loop, at a downscaled resolution and a quality
\* above quality_min
C7_Witness ==
    /\ pc = "done"
    /\ data_quality # None
    /\ Len(BackoffScales) >= 1
    /\ result.size # <<img.w, img.h>>
    /\ result.quality > input.quality_min

\* C9 as stated: with max_width given and smaller than the source width, the
\* output width equals the computed scaled width, int(width * (max_width /
\* width)), and does not exceed max_width.
C9_WidthEqualsScaled ==
    pc = "done" =>
        \A m \in input.max_width :
            m < input.file.w =>
                /\ result.size[1] = IntTimes(input.file.w, WidthFactor(m, input.file.w))
                /\ result.size[1] <= m

\* C9 amended: with max_width >= 1 given and smaller than the source width,
\* the first Quality Search runs at width max(1, int(width * (max_width /
\* width))), which does not exceed max_width; the output width is never
\* larger than that, and equals it when no backoff pass ran.
C9_WidthAtMostScaled ==
    pc = "done" =>
        \A m \in input.max_width :
            (1 <= m /\ m < input.file.w) =>
                LET sw == Max(1, IntTimes(input.file.w, WidthFactor(m, input.file.w))) IN
                /\ sw <= m
                /\ img.w = sw
                /\ result.size[1] <= sw
                /\ BackoffScales = <<>> => result.size[1] = sw

\* a 22 pixel wide source with max_width 15 written at width 14, the double
\* product 22 * (15 / 22.0) falling just below 15
C9_Witness ==
    /\ pc = "done"
    /\ input.max_width = {15}
    /\ input.file.w = 22
    /\ BackoffScales = <<>>
    /\ result.size[1] = 14

----------------------------------------------------------------------------
(* Claims about scale_by_factor and ensure_mode_for_format *)

\* C8: for a w x h image (w, h >= 1) and 0 < factor <= 1, scale_by_factor
\* returns w' x h' with 1 <= w' <= w and 1 <= h' <= h; so along any chain of
\* downscales no dimension grows and none becomes 0.
C8_DownscaleWithinBounds ==
    /\ \A i \in 1..Len(scales) :
        LET s == scales[i] IN
        /\ 1 <= s.after.w /\ s.after.w <= s.before.w
        /\ 1 <= s.after.h /\ s.after.h <= s.before.h
    /\ \A i \in 1..Len(scales) : \A j \in i..Len(scales) :
        /\ scales[j].after.w <= scales[i].before.w
        /\ scales[j].after.h <= scales[i].before.h
        /\ scales[i].before.w <= input.file.w
        /\ scales[i].before.h <= input.file.h

\* a downscale whose product rounds down to 0 and is floored at 1, and a
\* second downscale after it
C8_Witness ==
    /\ Len(scales) = 2
    /\ IntTimes(scales[1].before.h, scales[1].factor) = 0
    /\ scales[1].after.h = 1
    /\ scales[1].before.w > scales[1].after.w
    /\ scales[2].after = scales[2].before

\* the image has an alpha band or a palette transparency entry
CarriesAlpha(im) == im.mode \in {"RGBA", "LA"} \/ (im.mode = "P" /\ im.transp)

\* C10: for a JPEG or JPG target, ensure_mode_for_format returns an opaque
\* RGB image of the same size for every pixel format: an input carrying
\* alpha is composited onto white (transparent pixels white, opaque pixels
\* unchanged), any other non-RGB input is converted to RGB, an RGB input is
\* returned as it is; for a WEBP target the image is returned unchanged.
C10_JpegOpaqueWebpUnchanged ==
    pc = "op_normalized" =>
        LET F == Upper(input.fmt) IN
        /\ F \in {"JPEG", "JPG"} =>
            /\ cur_img.mode = "RGB"
            /\ cur_img.px.a = 255
            /\ <<cur_img.w, cur_img.h>> = <<img.w, img.h>>
            /\ CarriesAlpha(img) =>
                /\ img.px.a = 0 => cur_img.px.c = 255
                /\ img.px.a = 255 => cur_img.px.c = img.px.c
                /\ img.px.c <= cur_img.px.c /\ cur_img.px.c <= 255
            /\ ~CarriesAlpha(img) => cur_img.px.c = img.px.c
            /\ img.mode = "RGB" => cur_img = img
        /\ F = "WEBP" => cur_img = img

\* a fully transparent luminance-with-alpha image normalised for "jpeg": white
C10_Witness ==
    /\ pc = "op_normalized"
    /\ input.fmt = "jpeg"
    /\ img.mode = "LA"
    /\ img.px = [c |-> 100, a |-> 0]
    /\ cur_img.mode = "RGB"
    /\ cur_img.px = [c |-> 255, a |-> 255]

\* C11: ensure_mode_for_format is idempotent: for every pixel format and every
\* target format, applying it to its own output returns that output, pixel
\* format and content unchanged; the output is in a pixel format the second
\* application passes through without converting.
C11_NormalizeIdempotent ==
    /\ [][(pc = "op_normalized" /\ pc' = "op_renormalized") => cur_img' = cur_img]_vars
    /\ [](pc = "op_renormalized" =>
            LET F == Upper(input.fmt) IN
            /\ cur_img = ensure_mode_for_format(img, input.fmt)
            /\ F \in {"JPEG", "JPG"} => cur_img.mode = "RGB"
            /\ F \notin {"JPEG", "JPG", "WEBP"} => cur_img.mode \in {"RGB", "RGBA"})

\* a second application to the RGBA image the first made of a half-transparent
\* luminance-with-alpha image, for a target that is neither JPEG nor WEBP
C11_Witness ==
    /\ pc = "op_renormalized"
    /\ input.fmt = "PNG"
    /\ img.mode = "LA"
    /\ img.px.a = 128
    /\ cur_img.mode = "RGBA"
    /\ cur_img.px = img.px

----------------------------------------------------------------------------
(* binary_search_quality against the variant that leaves the loop early *)

\* the frame binary_search_quality started from
EntryFrame == BsqFrame(bsq.img, bsq.fmt, bsq.target_bytes, bsq.q_min, bsq.q_max, bsq.ret)

\* the for loop with "if lo > hi: break" at the top of its body
RECURSIVE loop_until_crossed(_, _)
loop_until_crossed(e, b) ==
    IF b.it = max_iters \/ b.lo > b.hi
    THEN b
    ELSE loop_until_crossed(e, bsq_step(e, b))

\* C12: under the monotonicity assumption (deterministic codec, size never
\* decreasing in quality) and valid bounds, binary_search_quality as written,
\* running all max_iters iterations, returns the same pair as the variant that
\* stops iterating as soon as lo > hi.
C12_SameAsEarlyExit ==
    (Returned /\ Monotone(enc) /\ bsq.q_min <= bsq.q_max) =>
        LET early == bsq_result(enc, loop_until_crossed(enc, EntryFrame)) IN
        /\ data_quality = early.data
        /\ data_quality # None => q_used = early.q

\* C13: in every reachable state of compress_to_target with valid bounds
\* (quality_min <= quality_max), every quality handed to the encoder (each
\* midpoint of the search over all max_iters iterations, the quality_min probe
\* after the loop, the quality_min measurements of the backoff loop) is
\* within quality_min..quality_max.
C13_ProbesWithinBounds ==
    input.quality_min <= input.quality_max =>
        \A i \in 1..Len(probes) :
            /\ input.quality_min <= probes[i].q
            /\ probes[i].q <= input.quality_max

----------------------------------------------------------------------------
(* The order of the resolutions tried *)

\* the resolutions reached so far: the starting one, then one per backoff pass
Resolutions == <<img>> \o [i \in 1..Len(BackoffScales) |-> BackoffScales[i].after]

\* C14: compress_to_target tries the resolutions in the order starting
\* resolution, pass 1, pass 2, ..., each pass downscaling the resolution
\* before it; it downscales or encodes only while no Quality Search has
\* succeeded, and the step after a success is the return, which writes the
\* bytes of that search and reports the resolution searched; nothing follows
\* the return.  When the first search succeeds and no max_width pre-scale
\* applied, the reported (width, height) is the input's.
C14_ReturnsAtFirstSuccess ==
    /\ [](probes # <<>> =>
            /\ \A k \in 1..Len(BackoffScales) :
                  BackoffScales[k].before = Resolutions[k]
            /\ \A k \in 1..(Len(Resolutions) - 1) : Resolutions[k] \in TriedImgs
            /\ probes[1].img = Resolutions[1]
            /\ \A i \in 1..(Len(probes) - 1) :
                  \/ probes[i + 1].img = probes[i].img
                  \/ \E k \in 1..(Len(Resolutions) - 1) :
                        /\ probes[i].img = Resolutions[k]
                        /\ probes[i + 1].img = Resolutions[k + 1])
    /\ [](data_quality # None => pc \in {"first", "pass", "done"})
    /\ [][data_quality # None =>
            /\ pc' = "done"
            /\ probes' = probes
            /\ scales' = scales
            /\ written' = <<data_quality>>
            /\ data_quality.img = Resolutions[Len(Resolutions)]
            /\ result'.size = <<data_quality.img.w, data_quality.img.h>>]_vars
    /\ [](pc = "done" => ~ENABLED Next)
    /\ []((pc = "done" /\ data_quality # None /\ scales = <<>>) =>
            result.size = <<input.file.w, input.file.h>>)

\* a return at the second downscaled resolution, the search having failed at
\* the starting one and at the first downscaled one
C14_Witness ==
    /\ pc = "done"
    /\ data_quality # None
    /\ Len(BackoffScales) = 2
    /\ Cardinality(TriedImgs) = 3
    /\ result.size = <<BackoffScales[2].after.w, BackoffScales[2].after.h>>
    /\ result.size # <<img.w, img.h>>

----------------------------------------------------------------------------
(* The size of a backoff step *)

\* 0.5 <= factor <= 0.95, on the exact value of the factor
FactorClamped(f) ==
    IF f.kind = "ratio"
    THEN 2 * f.n >= f.d /\ 20 * f.n <= 19 * f.d
    ELSE 4 * f.n >= f.d /\ (400 * f.n + 360) \div 361 <= f.d

\* C15 as stated: in every backoff pass the factor is within [0.5, 0.95], the
\* new width lies between max(1, floor(0.5 * w)) and max(1, floor(0.95 * w))
\* (likewise the height), and no pass shrinks a dimension by more than 50%
\* or, where the dimension changes, by less than 5%.
C15_ShrinkBetween5And50Percent ==
    \A i \in 1..Len(BackoffScales) :
        LET s == BackoffScales[i] IN
        /\ FactorClamped(s.factor)
        /\ Max(1, s.before.w \div 2) <= s.after.w
        /\ s.after.w <= Max(1, (19 * s.before.w) \div 20)
        /\ Max(1, s.before.h \div 2) <= s.after.h
        /\ s.after.h <= Max(1, (19 * s.before.h) \div 20)
        /\ 2 * s.after.w >= s.before.w
        /\ 2 * s.after.h >= s.before.h
        /\ s.after.w # s.before.w => 20 * s.after.w <= 19 * s.before.w
        /\ s.after.h # s.before.h => 20 * s.after.h <= 19 * s.before.h

\* C15 amended: in every backoff pass the factor is within [0.5, 0.95] and
\* the new width lies between max(1, floor(0.5 * w)) and
\* max(1, floor(0.95 * w)) (likewise the height); a dimension that changes
\* shrinks by at least 5%, a dimension stays only at 1, and a dimension never
\* falls below floor(w / 2), which for an odd w is a shrink of more than 50%.
C15_ShrinkBetweenFloors ==
    \A i \in 1..Len(BackoffScales) :
        LET s == BackoffScales[i] IN
        /\ FactorClamped(s.factor)
        /\ Max(1, s.before.w \div 2) <= s.after.w
        /\ s.after.w <= Max(1, (19 * s.before.w) \div 20)
        /\ Max(1, s.before.h \div 2) <= s.after.h
        /\ s.after.h <= Max(1, (19 * s.before.h) \div 20)
        /\ s.after.w # s.before.w => 20 * s.after.w <= 19 * s.before.w
        /\ s.after.h # s.before.h => 20 * s.after.h <= 19 * s.before.h
        /\ s.after.w = s.before.w => s.before.w = 1
        /\ s.after.h = s.before.h => s.before.h = 1

\* a pass at an unclamped factor that takes an odd height h to floor(h / 2),
\* less than half of it
C15_Witness ==
    /\ input.quality_min <= input.quality_max
    /\ \E i \in 1..Len(BackoffScales) :
        LET s == BackoffScales[i] IN
        /\ s.factor.kind = "root"
        /\ s.after.h = s.before.h \div 2
        /\ 2 * s.after.h < s.before.h

\* C16: every backoff pass makes strict progress until the floor is reached:
\* for an image other than 1 x 1 and a factor within [0.5, 0.95],
\* scale_by_factor returns an image with a strictly smaller width or a
\* strictly smaller height and fewer pixels; a 1 x 1 image is returned as
\* 1 x 1, so once 1 x 1 is reached every later pass is at that resolution.
C16_StrictProgressUntilFloor ==
    /\ \A i \in 1..Len(scales) :
        LET s == scales[i] IN
        FactorClamped(s.factor) =>
            /\ <<s.before.w, s.before.h>> # <<1, 1>> =>
                /\ s.after.w < s.before.w \/ s.after.h < s.before.h
                /\ s.after.w * s.after.h < s.before.w * s.before.h
            /\ <<s.before.w, s.before.h>> = <<1, 1>> => s.after = s.before
    /\ \A i \in 1..Len(BackoffScales) : \A j \in i..Len(BackoffScales) :
        <<BackoffScales[i].after.w, BackoffScales[i].after.h>> = <<1, 1>> =>
            BackoffScales[j].after = BackoffScales[i].after

\* a pass that takes 3 x 2 to the floor, and the pass after it at 1 x 1
C16_Witness ==
    /\ Len(BackoffScales) = 2
    /\ <<BackoffScales[1].before.w, BackoffScales[1].before.h>> = <<3, 2>>
    /\ <<BackoffScales[1].after.w, BackoffScales[1].after.h>> = <<1, 1>>
    /\ BackoffScales[2].before = BackoffScales[1].after
    /\ BackoffScales[2].after = BackoffScales[2].before
    /\ Cardinality(TriedImgs) = 2

----------------------------------------------------------------------------
(* The last-resort return *)

\* C17: with a deterministic encoder, whenever the loop test of line 156 is
\* evaluated current_bytes > target_bytes holds, so the loop is left only by
\* passes reaching max_passes; the return after the loop is reached only with
\* passes = max_passes, and the bytes it writes are strictly larger than
\* target_kb * 1024.
C17_LastResortOnlyAfterAllPasses ==
    /\ pc = "while" => current_bytes > target_bytes
    /\ (pc = "done" /\ data_quality = None) =>
        /\ passes = input.max_passes
        /\ current_bytes > target_bytes
        /\ written = <<data_low>>
        /\ written[1].len = current_bytes
        /\ written[1].len > input.target_kb * 1024

\* a last-resort return after two passes that is over a budget of 1 KB by
\* less than 1 KB
C17_Witness ==
    /\ pc = "done"
    /\ data_quality = None
    /\ input.max_passes = 2
    /\ passes = 2
    /\ input.target_kb = 1
    /\ written[1].len > 1024
    /\ written[1].len < 2048

----------------------------------------------------------------------------
(* The qualities recorded into best *)

\* a binary_search_quality call is running or has just returned
InSearch == pc = "bsq_loop" \/ Returned

\* the qualities probed on the searched image whose encoding fit the budget:
\* inside the loop these are the qualities recorded into best, in order
FittingProbes == { probes[i].q : i \in { j \in 1..Len(probes) :
                     probes[j].img = bsq.img /\ Fits(probes[j].q) } }

\* C18 as stated: within one call of binary_search_quality, with a
\* deterministic encoder, monotone or not, each quality recorded into best is
\* at least every quality recorded before it, over all max_iters iterations;
\* the returned quality is the maximum of the probed qualities that fit.
C18_BestNeverLowered ==
    InSearch =>
        /\ bsq.best # None => \A q \in FittingProbes : q <= bsq.best.q
        /\ (Returned /\ data_quality # None) =>
            /\ q_used \in FittingProbes
            /\ \A q \in FittingProbes : q <= q_used

\* C18 amended: the same, for a call with q_min <= q_max.
C18_BestNeverLoweredValidBounds ==
    (InSearch /\ bsq.q_min <= bsq.q_max) =>
        /\ bsq.best # None => \A q \in FittingProbes : q <= bsq.best.q
        /\ (Returned /\ data_quality # None) =>
            /\ q_used \in FittingProbes
            /\ \A q \in FittingProbes : q <= q_used

\* a search run past lo > hi that recorded three or more qualities and met a
\* quality that did not fit
C18_Witness ==
    /\ Returned
    /\ bsq.q_min <= bsq.q_max
    /\ bsq.lo > bsq.hi
    /\ data_quality # None
    /\ Cardinality(FittingProbes) >= 3
    /\ \E i \in 1..Len(probes) : probes[i].img = bsq.img /\ ~Fits(probes[i].q)

====
